---------------------------- MODULE Spec2Model ----------------------------
(***************************************************************************)
(* A model of the CyclopsVision backend: the verify_step rate gate and     *)
(* response handling (routers/verification.py), the extraction response    *)
(* parsers with timestamp reconciliation (services/gemini_service.py and   *)
(* services/ai_service.py) and the feedback overlay fallback               *)
(* (routers/ai_feedback.py), and lesson creation with the repository       *)
(* (routers/lessons.py, services/lesson_storage.py).                       *)
(*                                                                         *)
(* Time is counted in whole seconds on the wall clock that time.time()     *)
(* reads.  Video times are counted in ticks of 1/TimeScale second so that  *)
(* duration / num_steps is exact.  Confidences are counted in tenths.      *)
(***************************************************************************)
EXTENDS Integers, Sequences, FiniteSets, TLC

VARIABLES
    clock,              \* the value time.time() returns now (seconds)
    LAST_REQUEST_TIME,  \* verification.py:18, the dict lesson_id -> time
    calls,              \* the verify_step calls started so far, in start order
    response,           \* what the step just taken returned to its caller
    answer,             \* the backend answer the step just taken consumed
    raw,                \* the model text handed to an extraction parser
    video_duration,     \* the duration handed to the parser (ticks)
    parsed,             \* what the parser returned or raised
    overlay_data,       \* an overlay text and what an overlay parser made of it
    lessons,            \* the lesson repository, lesson_storage
    feedback,           \* the feedback request in flight
    creations,          \* the create_lesson requests made so far, in start order
    regeneration        \* the last regenerate_clips request and its response

vars == <<clock, LAST_REQUEST_TIME, calls, response, answer, raw, video_duration,
          parsed, overlay_data, lessons, feedback, creations, regeneration>>

verifyVars == <<clock, LAST_REQUEST_TIME, calls, response, answer>>
parseVars == <<raw, video_duration, parsed, overlay_data>>
feedbackVars == <<lessons, feedback, creations, regeneration>>

----------------------------------------------------------------------------
(* Bounds of the model *)

\* the number of verify_step calls a behaviour makes
MaxRequests == 3
\* the reading of time.time() when the process starts serving (seconds since
\* the epoch; any real reading is far above RATE_LIMIT_SECONDS)
StartTime == 5
\* how many seconds a behaviour lasts
Horizon == 2
\* the number of verify_step calls made when every backend answer is tried
MaxReplyCalls == 1
\* the longest "steps" list the model text holds
MaxSteps == 2
\* the number of create_lesson requests a behaviour makes
MaxCreates == 2
\* the number of requests of all kinds made when they share the server
MaxServerRequests == 3

\* verification.py:19
RATE_LIMIT_SECONDS == 2

Lessons == {"L1", "L2"}
StepIds == {1, 2}

Null == "null"
Missing == "missing"
WrongType == "wrongtype"

----------------------------------------------------------------------------
(* verify_step: the rate gate, verification.py:43-54 *)

\* dict.get(key, 0) on the rate-limit table
LastTime(table, lesson_id) ==
    IF lesson_id \in DOMAIN table THEN table[lesson_id] ELSE 0

\* dict[key] = value
Put(table, key, value) ==
    [k \in (DOMAIN table) \cup {key} |-> IF k = key THEN value ELSE table[k]]

RateLimitedFlipped(now, last_time) == now - last_time > RATE_LIMIT_SECONDS

RateLimitedInclusive(now, last_time) == now - last_time <= RATE_LIMIT_SECONDS

\* verification.py:46, the gate's test
RateLimited(now, last_time) == now - last_time < RATE_LIMIT_SECONDS

TableAfterGateEager(table, lesson_id, now) == Put(table, lesson_id, now)

TableAfterGateForgetful(table, lesson_id, now) == table

TableAfterGateGlobal(table, lesson_id, now) ==
    IF RateLimited(now, LastTime(table, lesson_id))
    THEN table
    ELSE [k \in Lessons |-> now]

TableAfterGateStale(table, lesson_id, now) ==
    IF RateLimited(now, LastTime(table, lesson_id))
    THEN table
    ELSE Put(table, lesson_id, now - RATE_LIMIT_SECONDS)

\* verification.py:45-54, the rate-limit table a call leaves behind
TableAfterGate(table, lesson_id, now) ==
    IF RateLimited(now, LastTime(table, lesson_id))
    THEN table
    ELSE Put(table, lesson_id, now)

----------------------------------------------------------------------------
(* verify_step: the responses, verification.py:30-34 *)

\* confidence=0.0 in tenths
ZeroConfidence == 0
\* data.get("confidence", 0.5) in tenths
DefaultConfidence == 5

VerificationResponse(status, reason, confidence, suggestion) ==
    [kind |-> "response", status |-> status, reason |-> reason,
     confidence |-> confidence, suggestion |-> suggestion]

\* a response or exception r as the outcome of the i-th call
Returned(i, r) == [call |-> i, kind |-> r.kind, status |-> r.status,
                   reason |-> r.reason, confidence |-> r.confidence,
                   suggestion |-> r.suggestion]

\* an exception that leaves the handler
Raised(exc) ==
    [kind |-> "raised", status |-> exc, reason |-> Null,
     confidence |-> ZeroConfidence, suggestion |-> Null]

NoResponse ==
    [kind |-> "none", status |-> Null, reason |-> Null,
     confidence |-> ZeroConfidence, suggestion |-> Null]

\* verification.py:47-52
RateLimitedResponse ==
    VerificationResponse("in_progress", "Checking...", ZeroConfidence, Null)

\* verification.py:65-70
UnavailableResponse ==
    VerificationResponse("in_progress", "AI unavailable", ZeroConfidence,
                         "Check Ollama")

\* verification.py:165-170, suggestion=str(e)[:50]
ErrorResponse(exc) ==
    VerificationResponse("in_progress", "Error", ZeroConfidence, exc)

\* verification.py:148-153
NoJsonResponse ==
    VerificationResponse("in_progress", "Processing...", ZeroConfidence, Null)

\* verification.py:156-161
BadJsonResponse ==
    VerificationResponse("in_progress", "Analyzing...", ZeroConfidence, Null)

----------------------------------------------------------------------------
(* verify_step: what the backend can answer *)

\* a JSON field of the backend's answer: absent, a value of the expected
\* type, or a value of another type (null included)
Field(tag, val) == [tag |-> tag, val |-> val]

StatusFields ==
    {Field("value", s) : s \in {"in_progress", "complete", "mistake", "done"}}
        \cup {Field(Missing, Null), Field(WrongType, Null)}

\* confidences in tenths: 0.9, 1.7, -0.3
ConfidenceFields ==
    {Field("number", c) : c \in {9, 17, -3}}
        \cup {Field(Missing, 0), Field(WrongType, 0)}

ReasonFields ==
    {Field("value", "Wrong tool"), Field(Missing, Null), Field(WrongType, Null)}

\* "suggestion": null reads as None, like an absent key
SuggestionFields ==
    {Field("value", "Use the wrench"), Field(Missing, Null),
     Field(WrongType, Null)}

ObjectReplies ==
    [kind : {"object"}, status : StatusFields, confidence : ConfidenceFields,
     reason : ReasonFields, suggestion : SuggestionFields]

PlainReply(kind) ==
    [kind |-> kind, status |-> Field(Missing, Null),
     confidence |-> Field(Missing, 0), reason |-> Field(Missing, Null),
     suggestion |-> Field(Missing, Null)]

\* no answer was consumed
NoAnswer == PlainReply("none")

\* the create() call raises (connection refused, HTTP error), times out,
\* answers with content None, with text holding no {...}, with {...} that
\* is not JSON, or with a JSON object
Replies ==
    {PlainReply(k) :
        k \in {"raise", "timeout", "null_content", "no_object", "bad_json"}}
        \cup ObjectReplies

----------------------------------------------------------------------------
(* verify_step: handling the answer, verification.py:117-170 *)

ValidStatusUnchecked(f) == IF f.tag = "value" THEN f.val ELSE "in_progress"

\* verification.py:135-139
ValidStatus(f) ==
    IF f.tag = "value" /\ f.val \in {"in_progress", "complete", "mistake"}
    THEN f.val
    ELSE "in_progress"

\* pydantic rejects a field of the wrong type when the response is built
ResponseBuilds(r) ==
    /\ r.reason.tag # WrongType
    /\ r.confidence.tag # WrongType
    /\ r.suggestion.tag # WrongType

\* verification.py:141-146
ParsedResponse(r) ==
    VerificationResponse(
        ValidStatus(r.status),
        IF r.reason.tag = Missing THEN "Analyzing..." ELSE r.reason.val,
        IF r.confidence.tag = Missing THEN DefaultConfidence
                                      ELSE r.confidence.val,
        IF r.suggestion.tag = Missing THEN Null ELSE r.suggestion.val)

\* verification.py:131-161, the inner try: a response, or the exception that
\* leaves it (the inner handler catches json.JSONDecodeError alone)
InnerTry(r) ==
    CASE r.kind = "no_object" -> NoJsonResponse
      [] r.kind = "bad_json" -> BadJsonResponse
      [] r.kind = "object" ->
            IF ResponseBuilds(r) THEN ParsedResponse(r)
                                 ELSE Raised("ValidationError")
      [] OTHER -> Raised("unreachable")

\* verification.py:72-128, what runs before the inner try
BeforeInnerTry(r) ==
    CASE r.kind = "raise" -> Raised("APIConnectionError")
      [] r.kind = "timeout" -> Raised("APITimeoutError")
      [] r.kind = "null_content" -> Raised("TypeError")
      [] OTHER -> NoResponse

OuterCatchesApiErrorsOnly(exc) ==
    exc \in {"APIConnectionError", "APITimeoutError"}

\* verification.py:163, except Exception
OuterCatches(exc) == TRUE

\* verification.py:72-170, the outer try and its handler
HandleReply(r) ==
    LET early == BeforeInnerTry(r)
        got == IF early.kind = "raised" THEN early ELSE InnerTry(r)
    IN  IF got.kind = "raised" /\ OuterCatches(got.status)
        THEN ErrorResponse(got.status)
        ELSE got

----------------------------------------------------------------------------
(* The model text an extraction parser is handed *)

RECURSIVE Gcd(_, _)
Gcd(a, b) == IF b = 0 THEN a ELSE Gcd(b, a % b)

RECURSIVE LcmUpTo(_)
LcmUpTo(n) ==
    IF n <= 2 THEN 2 ELSE (LcmUpTo(n - 1) * n) \div Gcd(LcmUpTo(n - 1), n)

\* Video times are exact multiples of 1/TicksPerSecond second; the tick is
\* fine enough that duration / num_steps is a whole number of ticks for
\* every step count of the model, and that 0.5 s is one too.
TicksPerSecond == LcmUpTo(MaxSteps)

Seconds(n) == n * TicksPerSecond

\* video_duration: 0.0 when unknown (gemini_service.py:126), else 20 s
Durations == {0, Seconds(20)}

Num(n) == Field("number", n)

\* (start_time, end_time) pairs of a step object, in seconds: none given,
\* inverted, valid inside the video, valid past its end, valid from before
\* its start
WindowsInSeconds ==
    {<<Field(Missing, 0), Field(Missing, 0)>>,
     <<Num(8), Num(3)>>, <<Num(0), Num(15)>>, <<Num(15), Num(30)>>,
     <<Num(-5), Num(3)>>}

InTicks(f) == IF f.tag = "number" THEN Num(Seconds(f.val)) ELSE f

\* id_first: "step_id" is the object's first key, as in the prompt's
\* example (gemini_service.py:108-109)
StepObject(step_id, title, window) ==
    [kind |-> "object", step_id |-> step_id, title |-> title,
     start_time |-> InTicks(window[1]), end_time |-> InTicks(window[2]),
     id_first |-> TRUE]

\* the elements a "steps" list can hold: step objects, step objects with a
\* field of the wrong type (null, a string for a number), a step object
\* whose "step_id" comes after its title, and a value that is no object
StepItems ==
    {StepObject(sid, Field("value", "Cut wire"), w) :
        sid \in {Field(Missing, 0), Num(1), Num(2)}, w \in WindowsInSeconds}
    \cup {StepObject(Field(WrongType, 0), Field("value", "Cut wire"),
                     <<Num(0), Num(15)>>),
          StepObject(Num(1), Field("value", "Cut wire"),
                     <<Field(WrongType, 0), Num(15)>>),
          StepObject(Num(1), Field(Missing, Null), <<Num(0), Num(15)>>),
          [StepObject(Num(2), Field("value", "Cut wire"), <<Num(0), Num(15)>>)
                EXCEPT !.id_first = FALSE],
          [kind |-> "scalar", step_id |-> Field(Missing, 0),
           title |-> Field(Missing, Null), start_time |-> Field(Missing, 0),
           end_time |-> Field(Missing, 0), id_first |-> FALSE]}

RECURSIVE SeqsUpTo(_, _)
SeqsUpTo(S, n) ==
    IF n = 0 THEN {<<>>}
    ELSE LET shorter == SeqsUpTo(S, n - 1)
         IN  shorter \cup {Append(q, x) : q \in shorter, x \in S}

Body(kind, steps, items) == [kind |-> kind, steps |-> steps, items |-> items]

\* What the model wrote: a JSON object whose "steps" is a list, is absent
\* or is no list; a JSON value that is no object; step objects followed by
\* a cut-off object (the output hit its token limit); prose.
Bodies ==
    {Body(k, "list", q) : k \in {"object", "truncated"},
                          q \in SeqsUpTo(StepItems, MaxSteps)}
    \cup {Body("object", Missing, <<>>), Body("object", WrongType, <<>>),
          Body("nonobject", Missing, <<>>), Body("prose", Missing, <<>>)}

\* The text: the body, after a sentence of prose or not, inside a ```json
\* fence, a bare ``` fence or none.
RawTexts ==
    [lead : {"none", "prose"}, fence : {"none", "json", "bare"}, body : Bodies]

NoText == [lead |-> "none", fence |-> "none", body |-> Body("none", Missing, <<>>)]

----------------------------------------------------------------------------
(* The parsers' results *)

Step(step_id, title, start_time, end_time) ==
    [step_id |-> step_id, title |-> title, start_time |-> start_time,
     end_time |-> end_time]

\* models/lesson.py:32-36
TeacherConfig(parser, via, steps, total_steps) ==
    [kind |-> "config", parser |-> parser, via |-> via, exc |-> Null,
     total_steps |-> total_steps, steps |-> steps]

ParserRaised(parser, exc) ==
    [kind |-> "raised", parser |-> parser, via |-> "none", exc |-> exc,
     total_steps |-> 0, steps |-> <<>>]

NotParsed ==
    [kind |-> "none", parser |-> "none", via |-> "none", exc |-> Null,
     total_steps |-> 0, steps |-> <<>>]

\* gemini_service.py:187-199; the Step's times are the model's defaults,
\* models/lesson.py:27-28
FallbackConfig ==
    TeacherConfig("gemini", "fallback", <<Step(1, "Procedure", 0, 0)>>, 1)

\* ai_service.py:148
EmptyConfig == TeacherConfig("ai_service", "error", <<>>, 0)

----------------------------------------------------------------------------
(* OllamaService._parse_teacher_config, gemini_service.py:126-223 *)

\* json.loads accepts the text: nothing but one JSON value
JsonLoads(text) ==
    /\ text.lead = "none"
    /\ text.fence = "none"
    /\ text.body.kind \in {"object", "nonobject"}

\* gemini_service.py:130-137: the text between the first fence and the next
StripFenceAnywhere(text) ==
    IF text.fence # "none"
    THEN [lead |-> "none", fence |-> "none", body |-> text.body]
    ELSE text

\* gemini_service.py:207: the step pattern wants an object that opens with
\* "step_id": and digits
RepairMatches(item) ==
    /\ item.kind = "object"
    /\ item.id_first
    /\ item.step_id.tag = "number"
    /\ item.step_id.val >= 0

\* gemini_service.py:208-217: the step objects the pattern finds in the text
RepairedSteps(text) ==
    IF text.body.kind \in {"object", "truncated"}
    THEN SelectSeq(text.body.items, RepairMatches)
    ELSE <<>>

\* gemini_service.py:138-142: data, or the exception of the inner try;
\* data is [kind, steps (tag), items]
LoadOrRepair(text) ==
    IF JsonLoads(text)
    THEN [exc |-> Null, via |-> "direct", data |-> text.body]
    ELSE IF RepairedSteps(text) # <<>>
    THEN [exc |-> Null, via |-> "repair",
          data |-> Body("object", "list", RepairedSteps(text))]
    ELSE [exc |-> "JSONDecodeError", via |-> "none", data |-> text.body]

EvenWindowOffByOne(i, num_steps, duration) ==
    <<(i + 1) * (duration \div num_steps), (i + 2) * (duration \div num_steps)>>

\* gemini_service.py:158-160, for the step at 0-based index i
EvenWindow(i, num_steps, duration) ==
    <<i * (duration \div num_steps), (i + 1) * (duration \div num_steps)>>

NumberOr(f, default) == IF f.tag = Missing THEN default ELSE f.val

ReconciledWindowAlways(item, i, num_steps, duration) ==
    IF duration > 0 /\ num_steps > 0
    THEN EvenWindow(i, num_steps, duration)
    ELSE <<NumberOr(item.start_time, 0), NumberOr(item.end_time, 0)>>

\* gemini_service.py:153-160: the step's window after reconciliation
ReconciledWindow(item, i, num_steps, duration) ==
    LET start_time == NumberOr(item.start_time, 0)
        end_time == NumberOr(item.end_time, 0)
    IN  IF end_time <= start_time /\ duration > 0 /\ num_steps > 0
        THEN EvenWindow(i, num_steps, duration)
        ELSE <<start_time, end_time>>

DefaultTitles == <<"Step 1", "Step 2", "Step 3", "Step 4", "Step 5">>

\* gemini_service.py:147-173: the exception the loop body raises for the
\* item, or Null: .get on a value that is no dict, <= on None or a string,
\* a Step field pydantic rejects
ItemRaises(item) ==
    CASE item.kind # "object" -> "AttributeError"
      [] WrongType \in {item.start_time.tag, item.end_time.tag} -> "TypeError"
      [] WrongType \in {item.step_id.tag, item.title.tag} -> "ValidationError"
      [] OTHER -> Null

\* gemini_service.py:162-173, for the item at 1-based position n
ReconciledStep(item, n, num_steps, duration) ==
    LET w == ReconciledWindow(item, n - 1, num_steps, duration)
    IN  Step(NumberOr(item.step_id, n),
             IF item.title.tag = Missing THEN DefaultTitles[n] ELSE item.title.val,
             w[1], w[2])

\* the first exception the loop raises, or Null
RECURSIVE FirstRaise(_)
FirstRaise(items) ==
    IF items = <<>> THEN Null
    ELSE IF ItemRaises(Head(items)) # Null THEN ItemRaises(Head(items))
    ELSE FirstRaise(Tail(items))

\* gemini_service.py:144-181, given data
StepsOfData(data, via, duration) ==
    IF data.kind # "object" THEN ParserRaised("gemini", "AttributeError")
    ELSE IF data.steps = WrongType THEN ParserRaised("gemini", "TypeError")
    ELSE IF FirstRaise(data.items) # Null
    THEN ParserRaised("gemini", FirstRaise(data.items))
    ELSE IF data.items = <<>> THEN ParserRaised("gemini", "ValueError")
    ELSE TeacherConfig("gemini", via,
            [n \in 1..Len(data.items) |->
                ReconciledStep(data.items[n], n, Len(data.items), duration)],
            Len(data.items))

\* gemini_service.py:183, except json.JSONDecodeError
CatchesJsonDecodeError(exc) == exc = "JSONDecodeError"

\* gemini_service.py:126-199
ParseTeacherConfigOf(text, duration) ==
    LET loaded == LoadOrRepair(StripFenceAnywhere(text))
        got == IF loaded.exc # Null THEN ParserRaised("gemini", loaded.exc)
               ELSE StepsOfData(loaded.data, loaded.via, duration)
    IN  IF got.kind = "raised" /\ CatchesJsonDecodeError(got.exc)
        THEN FallbackConfig
        ELSE got

----------------------------------------------------------------------------
(* AIVideoService._parse_response, ai_service.py:83-148 *)

\* ai_service.py:87-92: a fence is removed only when the text opens with it
StripLeadingFence(text) ==
    IF text.lead = "none" /\ text.fence # "none"
    THEN [lead |-> "none", fence |-> "none", body |-> text.body]
    ELSE text

\* ai_service.py:122-131: float() takes a number or an absent key's 0;
\* Step takes step_id and title of the right type
ItemRaisesInResponse(item) ==
    CASE item.kind # "object" -> "AttributeError"
      [] WrongType \in {item.start_time.tag, item.end_time.tag} -> "TypeError"
      [] WrongType \in {item.step_id.tag, item.title.tag} -> "ValidationError"
      [] OTHER -> Null

\* ai_service.py:122-131, for the item at 1-based position n
ResponseStep(item, n) ==
    Step(NumberOr(item.step_id, n),
         IF item.title.tag = Missing THEN "Untitled Step" ELSE item.title.val,
         NumberOr(item.start_time, 0), NumberOr(item.end_time, 0))

\* ai_service.py:83-148: every exception ends in the empty config
ParseResponseOf(text) ==
    LET stripped == StripLeadingFence(text)
        data == stripped.body
    IN  IF \/ ~JsonLoads(stripped)
           \/ data.kind # "object"
           \/ data.steps = WrongType
           \/ \E n \in 1..Len(data.items) :
                 ItemRaisesInResponse(data.items[n]) # Null
        THEN EmptyConfig
        ELSE TeacherConfig("ai_service", "direct",
                [n \in 1..Len(data.items) |-> ResponseStep(data.items[n], n)],
                Len(data.items))

----------------------------------------------------------------------------
(* The parsers applied to a text *)

\* OllamaService._parse_teacher_config(raw, lesson_id, video_duration)
ParseTeacherConfig ==
    /\ raw # NoText
    /\ parsed = NotParsed
    /\ parsed' = ParseTeacherConfigOf(raw, video_duration)
    /\ UNCHANGED <<raw, video_duration, overlay_data, verifyVars, feedbackVars>>

\* AIVideoService._parse_response(raw)
ParseResponse ==
    /\ raw # NoText
    /\ parsed = NotParsed
    /\ parsed' = ParseResponseOf(raw)
    /\ UNCHANGED <<raw, video_duration, overlay_data, verifyVars, feedbackVars>>

----------------------------------------------------------------------------
(* The event loop the handlers share *)

HoldsLoopWhileAwaiting(pc) == pc = "awaiting"

\* Whether a handler at pc keeps the event loop to itself.  The backend
\* calls are `await ...create(...)` on an openai.AsyncOpenAI client
\* (verification.py:118, ai_service.py:236, :286, :367, :442): the handler
\* is suspended and the loop runs other handlers.
HoldsLoop(pc) == FALSE

\* some handler keeps the event loop, so that no other handler can run
LoopHeld ==
    \/ \E i \in 1..Len(calls) : HoldsLoop(calls[i].pc)
    \/ \E i \in 1..Len(creations) : HoldsLoop(creations[i].pc)
    \/ HoldsLoop(feedback.pc)

----------------------------------------------------------------------------
(* verify_step: the handler as the event loop runs it *)

Call(lesson_id, step_id, now, pc, outcome, invoked) ==
    [lesson_id |-> lesson_id, step_id |-> step_id, now |-> now, pc |-> pc,
     outcome |-> outcome, invoked |-> invoked]

\* verification.py:43-125: from the handler's first line to its first await.
\* The gate, the table update and the construction of the service run without
\* a suspension point; constructs says whether OllamaVideoService() succeeds.
VerifyStart(lesson_id, step_id, constructs) ==
    /\ Len(calls) < MaxRequests
    /\ ~LoopHeld
    /\ LET now == clock
           last_time == LastTime(LAST_REQUEST_TIME, lesson_id)
       IN  /\ LAST_REQUEST_TIME' = TableAfterGate(LAST_REQUEST_TIME, lesson_id, now)
           /\ IF RateLimited(now, last_time)
              THEN /\ calls' = Append(calls, Call(lesson_id, step_id, now,
                                        "done", "rate_limited", FALSE))
                   /\ response' = Returned(Len(calls) + 1, RateLimitedResponse)
              ELSE IF ~constructs
              THEN /\ calls' = Append(calls, Call(lesson_id, step_id, now,
                                        "done", "unavailable", FALSE))
                   /\ response' = Returned(Len(calls) + 1, UnavailableResponse)
              ELSE /\ calls' = Append(calls, Call(lesson_id, step_id, now,
                                        "awaiting", "none", TRUE))
                   /\ response' = Returned(0, NoResponse)
    /\ answer' = NoAnswer
    /\ UNCHANGED <<clock, parseVars, feedbackVars>>

\* verification.py:118-170: the awaited create() call ends and the handler
\* runs to its return
VerifyFinish(i, r) ==
    /\ i \in 1..Len(calls)
    /\ calls[i].pc = "awaiting"
    /\ LET resp == HandleReply(r)
       IN  /\ response' = Returned(i, resp)
           /\ answer' = r
           /\ calls' = [calls EXCEPT ![i].pc = "done",
                                     ![i].outcome =
                                        IF resp.kind = "raised" THEN "raised"
                                        ELSE "answered"]
    /\ UNCHANGED <<clock, LAST_REQUEST_TIME, parseVars, feedbackVars>>

\* a second passes on the wall clock
Tick ==
    /\ clock < StartTime + Horizon
    /\ clock' = clock + 1
    /\ response' = Returned(0, NoResponse)
    /\ answer' = NoAnswer
    /\ UNCHANGED <<LAST_REQUEST_TIME, calls, parseVars, feedbackVars>>

----------------------------------------------------------------------------
(* The lesson repository as the feedback handler sees it *)

\* a lesson record: its ai_teacher_config is None or holds steps; clips says
\* whether a step of it carries a clip_url
LessonRecord(has_config, steps) ==
    [has_config |-> has_config, steps |-> steps, clips |-> FALSE]

\* a stored step; its times are the Step model's defaults,
\* models/lesson.py:27-28
StoredStep(step_id, title) ==
    [step_id |-> step_id, title |-> title, start_time |-> 0, end_time |-> 0]

\* the lesson records a repository may hold for one id
LessonRecords ==
    {LessonRecord(FALSE, <<>>), LessonRecord(TRUE, <<>>),
     LessonRecord(TRUE, <<StoredStep(1, "Cut wire"), StoredStep(2, "Strip wire")>>)}

\* the repositories: a record for some of the lesson ids
Repositories ==
    UNION {[ids -> LessonRecords] : ids \in SUBSET Lessons}

\* lesson_storage.py:89-98
Deleted(store, lesson_id) ==
    [k \in (DOMAIN store) \ {lesson_id} |-> store[k]]

----------------------------------------------------------------------------
(* get_feedback: what it returns, models/overlay.py:64-85 *)

\* duration_seconds=5.0, ai_feedback.py:63 and :89
FiveSeconds == 5

Element(type, text) == [type |-> type, text |-> text]

OverlayInstruction(overlay_type, audio_text, elements, duration_seconds) ==
    [overlay_type |-> overlay_type, audio_text |-> audio_text,
     elements |-> elements, duration_seconds |-> duration_seconds]

NoOverlay == OverlayInstruction(Null, Null, <<>>, 0)

FeedbackResult(kind, code, overlay, message) ==
    [kind |-> kind, code |-> code, overlay |-> overlay, message |-> message]

NoResult == FeedbackResult("none", 0, NoOverlay, Null)

HttpError(code) == FeedbackResult("http_error", code, NoOverlay, Null)

\* ai_feedback.py:76-90
FallbackOverlay(title) ==
    OverlayInstruction("diagram", "Please check your technique for: " \o title,
                       <<Element("label", "Review: " \o title)>>, FiveSeconds)

----------------------------------------------------------------------------
(* get_feedback: what the backend can answer *)

\* Field("list", n) stands for the n-th element list of ElementListAt: none,
\* one label, a circle and an arrow, an element of a type the overlay model
\* does not know
OverlayObjects ==
    [kind : {"object"},
     overlay_type : {Field("value", "highlight"), Field(Missing, Null)},
     audio_text : {Field("value", "Turn it left"), Field("value", ""),
                   Field(Missing, Null), Field(WrongType, Null)},
     elements : {Field("list", 1), Field("list", 2), Field("list", 3),
                 Field("list", 4), Field(Missing, 0), Field(WrongType, 0)},
     duration_seconds : {Field("number", 3), Field(Missing, 0)}]

PlainOverlayReply(kind) ==
    [kind |-> kind, overlay_type |-> Field(Missing, Null),
     audio_text |-> Field(Missing, Null), elements |-> Field(Missing, 0),
     duration_seconds |-> Field(Missing, 0)]

\* the create() call raises or times out, or answers with text that is no
\* JSON, with a JSON value that is no object, or with a JSON object
OverlayReplies ==
    {PlainOverlayReply(k) : k \in {"raise", "timeout", "unparseable", "nonobject"}}
        \cup OverlayObjects

\* the element lists a backend answer may carry
ElementListAt(n) ==
    <<<<>>, <<Element("label", "Turn left")>>,
      <<Element("circle", Null), Element("arrow", Null)>>,
      <<Element("path", Null)>>,
      <<Element("label", "Check your technique")>>>>[n]

----------------------------------------------------------------------------
(* get_feedback, ai_feedback.py:19-96 *)

\* ai_service.py:161-174: the dict (or other JSON value) the service returns
ParseOverlayResponse(r) ==
    IF r.kind = "unparseable"
    THEN [kind |-> "object", overlay_type |-> Field("value", "diagram"),
          audio_text |-> Field("value", "Please adjust your technique."),
          elements |-> Field("list", 1),
          duration_seconds |-> Field(Missing, 0)]
    ELSE r

\* gemini_service.py:302-336: the dict OllamaService returns, or the
\* exception that leaves it (its handler catches json.JSONDecodeError alone)
OllamaServiceParseOverlayResponse(r) ==
    CASE r.kind = "unparseable" ->
            [kind |-> "object", overlay_type |-> Field("value", "diagram"),
             audio_text |->
                Field("value", "Please check your technique and try again."),
             elements |-> Field("list", 5),
             duration_seconds |-> Field("number", FiveSeconds)]
      [] r.kind = "object" ->
            [kind |-> "object", overlay_type |-> Field("value", "diagram"),
             audio_text |->
                IF r.audio_text.tag = Missing
                THEN Field("value", "Please adjust your technique.")
                ELSE r.audio_text,
             elements |->
                IF r.elements.tag = Missing THEN Field("list", 1) ELSE r.elements,
             duration_seconds |-> Field("number", FiveSeconds)]
      [] OTHER -> PlainOverlayReply("raised")

\* the overlay texts a parser is handed: no JSON, a JSON value that is no
\* object, a JSON object
OverlayTexts ==
    {r \in OverlayReplies : r.kind \in {"unparseable", "nonobject", "object"}}

NoOverlayText == PlainOverlayReply("none")

OverlayParse(parser, reply, data) ==
    [parser |-> parser, reply |-> reply, data |-> data]

\* AIVideoService._parse_overlay_response(overlay text)
ParseOverlay ==
    /\ overlay_data.reply # NoOverlayText
    /\ overlay_data.parser = "none"
    /\ overlay_data' = OverlayParse("ai_service", overlay_data.reply,
                                    ParseOverlayResponse(overlay_data.reply))
    /\ UNCHANGED <<raw, video_duration, parsed, verifyVars, feedbackVars>>

\* OllamaService._parse_overlay_response(overlay text)
OllamaServiceParseOverlay ==
    /\ overlay_data.reply # NoOverlayText
    /\ overlay_data.parser = "none"
    /\ overlay_data' =
            OverlayParse("gemini", overlay_data.reply,
                         OllamaServiceParseOverlayResponse(overlay_data.reply))
    /\ UNCHANGED <<raw, video_duration, parsed, verifyVars, feedbackVars>>

\* models/overlay.py:9-61: the element validates as one of the four shapes
ValidElement(e) == e.type \in {"circle", "arrow", "label", "rectangle"}

\* ai_feedback.py:52-64: the exception raised on the way to the overlay, or
\* Null
OverlayRaises(r) ==
    CASE r.kind = "raise" -> "APIConnectionError"
      [] r.kind = "timeout" -> "APITimeoutError"
      [] r.kind = "nonobject" -> "AttributeError"
      [] r.kind = "unparseable" -> Null
      [] r.audio_text.tag = WrongType -> "ValidationError"
      [] r.elements.tag = WrongType -> "ValidationError"
      [] /\ r.elements.tag = "list"
         /\ \E n \in 1..Len(ElementListAt(r.elements.val)) :
               ~ValidElement(ElementListAt(r.elements.val)[n])
            -> "ValidationError"
      [] OTHER -> Null

\* ai_feedback.py:59-64
BuiltOverlay(r) ==
    LET d == ParseOverlayResponse(r)
    IN  OverlayInstruction(
            IF d.overlay_type.tag = Missing THEN "diagram" ELSE d.overlay_type.val,
            IF d.audio_text.tag = Missing THEN "Please adjust your technique."
                                          ELSE d.audio_text.val,
            IF d.elements.tag = "list" THEN ElementListAt(d.elements.val) ELSE <<>>,
            IF d.duration_seconds.tag = Missing THEN FiveSeconds
                                                ELSE d.duration_seconds.val)

FeedbackCatchesApiErrorsOnly(exc) ==
    exc \in {"APIConnectionError", "APITimeoutError"}

\* ai_feedback.py:72, except Exception
FeedbackCatches(exc) == TRUE

\* ai_feedback.py:49-96: the result when exc (or Null) came up in the try
FeedbackOutcome(exc, overlay, title) ==
    IF exc = Null
    THEN FeedbackResult("ok", 200, overlay, "Correction generated successfully")
    ELSE IF FeedbackCatches(exc)
    THEN FeedbackResult("ok", 200, FallbackOverlay(title), "Using fallback correction")
    ELSE FeedbackResult("raised", 500, NoOverlay, exc)

Request(pc, lesson_id, step_id, title, raised, result) ==
    [pc |-> pc, lesson_id |-> lesson_id, step_id |-> step_id, title |-> title,
     raised |-> raised, result |-> result]

NoRequest == Request("idle", Null, 0, Null, Null, NoResult)

\* ai_feedback.py:37-41
FindStep(steps, step_id) ==
    IF \E n \in 1..Len(steps) : steps[n].step_id = step_id
    THEN LET n == CHOOSE m \in 1..Len(steps) :
                    /\ steps[m].step_id = step_id
                    /\ \A k \in 1..(m - 1) : steps[k].step_id # step_id
         IN  <<steps[n]>>
    ELSE <<>>

\* ai_feedback.py:27-56: from the first line to the await on the backend;
\* service_ok says whether get_gemini_service() returns
FeedbackStart(lesson_id, step_id, service_ok) ==
    /\ feedback.pc \in {"idle", "done"}
    /\ ~LoopHeld
    /\ feedback' =
         IF lesson_id \notin DOMAIN lessons
         THEN Request("done", lesson_id, step_id, Null, Null, HttpError(404))
         ELSE IF ~lessons[lesson_id].has_config
         THEN Request("done", lesson_id, step_id, Null, Null, HttpError(400))
         ELSE LET found == FindStep(lessons[lesson_id].steps, step_id)
              IN  IF found = <<>>
                  THEN Request("done", lesson_id, step_id, Null, Null, HttpError(400))
                  ELSE IF ~service_ok
                  THEN Request("done", lesson_id, step_id, found[1].title, "ValueError",
                               FeedbackOutcome("ValueError", NoOverlay, found[1].title))
                  ELSE Request("awaiting", lesson_id, step_id, found[1].title,
                               Null, NoResult)
    /\ UNCHANGED <<lessons, creations, regeneration, verifyVars, parseVars>>

\* ai_feedback.py:52-96: the awaited generate_correction_overlay ends and
\* the handler runs to its return
FeedbackFinish(r) ==
    /\ feedback.pc = "awaiting"
    /\ feedback' = [feedback EXCEPT
            !.pc = "done",
            !.raised = OverlayRaises(r),
            !.result = FeedbackOutcome(OverlayRaises(r), BuiltOverlay(r),
                                       feedback.title)]
    /\ UNCHANGED <<lessons, creations, regeneration, verifyVars, parseVars>>

\* lessons.py:229-239
DeleteLesson(lesson_id) ==
    /\ lesson_id \in DOMAIN lessons
    /\ ~LoopHeld
    /\ lessons' = Deleted(lessons, lesson_id)
    /\ UNCHANGED <<feedback, creations, regeneration, verifyVars, parseVars>>

----------------------------------------------------------------------------
(* create_lesson and regenerate_clips, lessons.py:39-131 and :188-226 *)

\* lessons.py:75, str(uuid.uuid4()): an id no other record has
NewLessonId(n) == "L" \o ToString(n)

\* ai_service.py:471, the AI_PROVIDER environment variable
Providers == {"ollama", "openai"}

\* the model texts the extraction backend answers with here: two steps with
\* timestamps, two steps without, an empty "steps" list, prose
ExtractionTexts ==
    {[lead |-> "none", fence |-> "none",
      body |-> Body("object", "list",
                    <<StepObject(Num(1), Field("value", "Cut wire"),
                                 <<Num(0), Num(15)>>),
                      StepObject(Num(2), Field("value", "Cut wire"),
                                 <<Num(15), Num(30)>>)>>)],
     [lead |-> "none", fence |-> "none",
      body |-> Body("object", "list",
                    <<StepObject(Num(1), Field("value", "Cut wire"),
                                 <<Field(Missing, 0), Field(Missing, 0)>>),
                      StepObject(Num(2), Field("value", "Cut wire"),
                                 <<Field(Missing, 0), Field(Missing, 0)>>)>>)],
     [lead |-> "none", fence |-> "none", body |-> Body("object", "list", <<>>)],
     [lead |-> "prose", fence |-> "none", body |-> Body("prose", Missing, <<>>)]}

\* tts: what audio.speech.create does during the request, "ok" or "fails"
ExtractionReply(kind, text) == [kind |-> kind, text |-> text, tts |-> "ok"]

\* the create() call of analyze_video raises, times out, answers with
\* content None or with a text; speech synthesis works or fails
ExtractionReplies ==
    {ExtractionReply(k, NoText) : k \in {"raise", "timeout", "null_content"}}
        \cup {ExtractionReply("content", t) : t \in ExtractionTexts}
        \cup {[ExtractionReply("content", t) EXCEPT !.tts = "fails"] :
                t \in {x \in ExtractionTexts : x.body.items # <<>>}}

\* models/lesson.py:16-29, the fields of Step
StepFields ==
    {"step_id", "title", "description", "expected_objects", "expected_motion",
     "expected_duration_seconds", "mistake_patterns", "correction_mode",
     "start_time", "end_time", "clip_url"}

\* ai_service.py:380-395: the exception the audio loop ends with, or Null.
\* `if step.instruction:` is read outside the try; a failure of
\* _generate_audio or of the assignment to step.audio_url is caught per step.
GenerateAudioEnds(steps, tts) ==
    IF steps = <<>> THEN Null
    ELSE IF "instruction" \notin StepFields THEN "AttributeError"
    ELSE Null

\* ai_service.py:235-250 and :367-397: how analyze_video ends once the
\* backend has answered.  _parse_response(None) raises from its own handler
\* (response_text[:500], ai_service.py:147); the OpenAI service reads
\* step.instruction, a field Step does not have (ai_service.py:383).
AnalyzeVideoEnds(provider, reply) ==
    CASE reply.kind = "raise" -> [exc |-> "APIConnectionError", config |-> EmptyConfig]
      [] reply.kind = "timeout" -> [exc |-> "APITimeoutError", config |-> EmptyConfig]
      [] reply.kind = "null_content" -> [exc |-> "TypeError", config |-> EmptyConfig]
      [] OTHER ->
            LET config == ParseResponseOf(reply.text)
                audio == IF provider = "openai"
                         THEN GenerateAudioEnds(config.steps, reply.tts)
                         ELSE Null
            IN  [exc |-> audio, config |-> config]

\* lessons.py:99 and :204, the test a step passes to have its clip cut
ClipWanted(step) == step.start_time >= 0 /\ step.end_time > step.start_time

\* lessons.py:94-113 with lesson_storage.py:76-81: the record's config as
\* stored; clip_ok says whether extract_clip returns a path
StoredConfig(config, clip_ok) ==
    [has_config |-> TRUE,
     steps |-> [n \in 1..Len(config.steps) |->
                    [StoredStep(config.steps[n].step_id, config.steps[n].title)
                        EXCEPT !.start_time = config.steps[n].start_time,
                               !.end_time = config.steps[n].end_time]],
     clips |-> clip_ok /\ \E n \in 1..Len(config.steps) :
                                ClipWanted(config.steps[n])]

WithClipsRetimed(record, clip_ok) ==
    [record EXCEPT
        !.clips = record.clips \/ clip_ok,
        !.steps = [n \in 1..Len(record.steps) |->
                    [record.steps[n] EXCEPT !.end_time = record.steps[n].start_time]]]

UpdatedOrCreated(store, lesson_id, record) == Put(store, lesson_id, record)

UpdatedAlone(store, lesson_id, record) ==
    IF lesson_id \in DOMAIN store
    THEN [k \in {lesson_id} |-> record]
    ELSE store

\* lesson_storage.py:70-87: the record is replaced when the id is stored,
\* and nothing happens otherwise
Updated(store, lesson_id, record) ==
    IF lesson_id \in DOMAIN store
    THEN [store EXCEPT ![lesson_id] = record]
    ELSE store

WithClipsDropsConfig(record, clip_ok) == LessonRecord(FALSE, <<>>)

\* lessons.py:203-218: the record regenerate_clips writes back
WithClips(record, clip_ok) ==
    [record EXCEPT !.clips =
        \/ record.clips
        \/ clip_ok /\ \E n \in 1..Len(record.steps) : ClipWanted(record.steps[n])]

CreateCatchesApiErrorsOnly(exc) ==
    exc \in {"APIConnectionError", "APITimeoutError"}

\* lessons.py:116, except Exception around the extraction
CreateCatches(exc) == TRUE

\* a create_lesson request: failure is the exception the extraction ended
\* with (or Null), status the HTTP status of the response (0 before it is
\* sent), has_config whether the response carries a Procedure
\* tts: whether speech synthesis failed while the request ran
Creation(lesson_id, provider, pc, failure, status, has_config) ==
    [lesson_id |-> lesson_id, provider |-> provider, pc |-> pc,
     failure |-> failure, status |-> status, has_config |-> has_config,
     tts |-> "ok"]

\* lessons.py:116-131: the request ends with exc raised in the inner try
CreationFailed(lesson_id, provider, exc) ==
    IF CreateCatches(exc)
    THEN Creation(lesson_id, provider, "done", exc, 200, FALSE)
    ELSE Creation(lesson_id, provider, "done", exc, 500, FALSE)

\* lessons.py:56-90 with ai_service.py:193-236 and :315-367: from the first
\* line to the await on the backend.  is_video is the content-type test,
\* credential whether OPENAI_API_KEY is set, frames whether extract_frames
\* returns any frame.
CreateStart(is_video, provider, credential, frames) ==
    /\ Len(creations) < MaxCreates
    /\ ~LoopHeld
    /\ LET lesson_id == NewLessonId(Len(creations) + 1)
           exc == IF provider = "openai" /\ ~credential THEN "ValueError"
                  ELSE IF ~frames THEN "Exception"
                  ELSE Null
       IN  IF ~is_video
           THEN /\ creations' = Append(creations,
                        Creation(Null, provider, "done", "not_video", 400, FALSE))
                /\ lessons' = lessons
           ELSE /\ lessons' = Put(lessons, lesson_id, LessonRecord(FALSE, <<>>))
                /\ creations' = Append(creations,
                        IF exc # Null
                        THEN CreationFailed(lesson_id, provider, exc)
                        ELSE Creation(lesson_id, provider, "awaiting", Null, 0,
                                      FALSE))
    /\ UNCHANGED <<feedback, regeneration, verifyVars, parseVars>>

\* lessons.py:90-128: the awaited analyze_video ends and the handler runs to
\* its return
CreateFinish(i, reply, clip_ok) ==
    /\ i \in 1..Len(creations)
    /\ creations[i].pc = "awaiting"
    /\ LET c == creations[i]
           end == AnalyzeVideoEnds(c.provider, reply)
       IN  IF end.exc # Null
           THEN /\ creations' = [creations EXCEPT
                        ![i] = [CreationFailed(c.lesson_id, c.provider, end.exc)
                                    EXCEPT !.tts = reply.tts]]
                /\ lessons' = lessons
           ELSE /\ creations' = [creations EXCEPT
                        ![i] = [Creation(c.lesson_id, c.provider, "done", Null,
                                         200, TRUE)
                                    EXCEPT !.tts = reply.tts]]
                /\ lessons' = Updated(lessons, c.lesson_id,
                                      StoredConfig(end.config, clip_ok))
    /\ UNCHANGED <<feedback, regeneration, verifyVars, parseVars>>

Regeneration(lesson_id, status) == [lesson_id |-> lesson_id, status |-> status]

NoRegeneration == Regeneration(Null, 0)

\* lessons.py:188-226: a 404 for an unknown lesson, a 400 for a lesson with
\* no config or no steps, else the clips are cut and the config written back
RegenerateClips(lesson_id, clip_ok) ==
    /\ ~LoopHeld
    /\ IF lesson_id \notin DOMAIN lessons
       THEN /\ regeneration' = Regeneration(lesson_id, 404)
            /\ lessons' = lessons
       ELSE IF ~lessons[lesson_id].has_config \/ lessons[lesson_id].steps = <<>>
       THEN /\ regeneration' = Regeneration(lesson_id, 400)
            /\ lessons' = lessons
       ELSE /\ regeneration' = Regeneration(lesson_id, 200)
            /\ lessons' = Updated(lessons, lesson_id,
                                  WithClips(lessons[lesson_id], clip_ok))
    /\ UNCHANGED <<feedback, creations, verifyVars, parseVars>>

InitVerify ==
    /\ clock = StartTime
    /\ LAST_REQUEST_TIME = <<>>
    /\ calls = <<>>
    /\ response = Returned(0, NoResponse)
    /\ answer = NoAnswer

InitParseIdle ==
    /\ raw = NoText
    /\ video_duration = 0
    /\ parsed = NotParsed
    /\ overlay_data = OverlayParse("none", NoOverlayText, NoOverlayText)

InitFeedbackIdle ==
    /\ lessons = <<>>
    /\ feedback = NoRequest
    /\ creations = <<>>
    /\ regeneration = NoRegeneration

Init ==
    /\ InitVerify
    /\ InitParseIdle
    /\ InitFeedbackIdle

\* the answers the rate-gate specification lets the backend give: one of
\* each way the handler can end after its await
GateReplies ==
    {PlainReply("raise"), PlainReply("no_object"),
     [kind |-> "object", status |-> Field("value", "complete"),
      confidence |-> Field("number", 9), reason |-> Field("value", "Wrong tool"),
      suggestion |-> Field(Missing, Null)]}

NextGate ==
    \/ \E l \in Lessons, s \in StepIds, c \in BOOLEAN : VerifyStart(l, s, c)
    \/ \E i \in 1..MaxRequests, r \in GateReplies : VerifyFinish(i, r)
    \/ Tick

\* concurrent verify_step calls on one event loop
SpecGate == Init /\ [][NextGate]_vars

NextReply ==
    \/ \E l \in Lessons, s \in StepIds, c \in BOOLEAN :
            Len(calls) < MaxReplyCalls /\ VerifyStart(l, s, c)
    \/ \E i \in 1..MaxRequests, r \in Replies : VerifyFinish(i, r)
    \/ Tick

\* verify_step calls with every answer the backend can give
SpecReply == Init /\ [][NextReply]_vars

InitParse ==
    /\ InitVerify
    /\ InitFeedbackIdle
    /\ raw \in RawTexts
    /\ video_duration \in Durations
    /\ parsed = NotParsed
    /\ overlay_data = OverlayParse("none", NoOverlayText, NoOverlayText)

NextParse ==
    \/ ParseTeacherConfig
    \/ ParseResponse

\* each extraction parser applied to each model text
SpecParse == InitParse /\ [][NextParse]_vars

InitFeedback ==
    /\ InitVerify
    /\ InitParseIdle
    /\ lessons \in Repositories
    /\ feedback = NoRequest
    /\ creations = <<>>
    /\ regeneration = NoRegeneration

NextFeedback ==
    \/ \E l \in Lessons, s \in StepIds \cup {3}, ok \in BOOLEAN :
            FeedbackStart(l, s, ok)
    \/ \E r \in OverlayReplies : FeedbackFinish(r)
    \/ \E l \in Lessons : DeleteLesson(l)

\* feedback requests against a repository, lessons being deleted meanwhile
SpecFeedback == InitFeedback /\ [][NextFeedback]_vars

InitOverlay ==
    /\ InitVerify
    /\ InitFeedbackIdle
    /\ raw = NoText
    /\ video_duration = 0
    /\ parsed = NotParsed
    /\ overlay_data \in
            {OverlayParse("none", r, NoOverlayText) : r \in OverlayTexts}

NextOverlay ==
    \/ ParseOverlay
    \/ OllamaServiceParseOverlay

\* each overlay parser applied to each overlay text
SpecOverlay == InitOverlay /\ [][NextOverlay]_vars

NextLesson ==
    \/ \E is_video, credential, frames \in BOOLEAN, provider \in Providers :
            CreateStart(is_video, provider, credential, frames)
    \/ \E i \in 1..MaxCreates, r \in ExtractionReplies, clip_ok \in BOOLEAN :
            CreateFinish(i, r, clip_ok)
    \/ \E n \in 1..MaxCreates, clip_ok \in BOOLEAN :
            RegenerateClips(NewLessonId(n), clip_ok)
    \/ \E n \in 1..MaxCreates : DeleteLesson(NewLessonId(n))

\* lessons being created, re-clipped and deleted on one event loop
SpecLesson == Init /\ [][NextLesson]_vars

\* the requests the server has taken so far
ServerRequests ==
    Len(creations) + Len(calls) + (IF feedback.pc = "idle" THEN 0 ELSE 1)

\* the answers the shared-server specification lets the backends give
ServerExtractionReplies ==
    {ExtractionReply("raise", NoText)}
        \cup {ExtractionReply("content", t) :
                t \in {x \in ExtractionTexts : x.body.items # <<>>}}

ServerReply ==
    [kind |-> "object", status |-> Field("value", "complete"),
     confidence |-> Field("number", 9), reason |-> Field("value", "Wrong tool"),
     suggestion |-> Field(Missing, Null)]

ServerOverlayReplies ==
    {PlainOverlayReply("raise"),
     [kind |-> "object", overlay_type |-> Field("value", "highlight"),
      audio_text |-> Field("value", "Turn it left"),
      elements |-> Field("list", 2), duration_seconds |-> Field(Missing, 0)]}

NextServer ==
    \/ /\ ServerRequests < MaxServerRequests
       /\ CreateStart(TRUE, "ollama", TRUE, TRUE)
    \/ \E i \in 1..MaxCreates, r \in ServerExtractionReplies :
            CreateFinish(i, r, TRUE)
    \/ /\ ServerRequests < MaxServerRequests
       /\ \E n \in 1..MaxCreates : VerifyStart(NewLessonId(n), 1, TRUE)
    \/ \E i \in 1..MaxRequests : VerifyFinish(i, ServerReply)
    \/ /\ ServerRequests < MaxServerRequests
       /\ feedback.pc = "idle"
       /\ \E n \in 1..MaxCreates : FeedbackStart(NewLessonId(n), 1, TRUE)
    \/ \E r \in ServerOverlayReplies : FeedbackFinish(r)

\* extraction, verification and overlay requests sharing one event loop
SpecServer == Init /\ [][NextServer]_vars

NextStepReference ==
    \/ \E l \in Lessons, s \in StepIds \cup {3}, c \in BOOLEAN :
            Len(calls) < MaxReplyCalls /\ VerifyStart(l, s, c)
    \/ \E i \in 1..MaxRequests, r \in GateReplies : VerifyFinish(i, r)
    \/ \E l \in Lessons, s \in StepIds \cup {3} :
            feedback.pc = "idle" /\ FeedbackStart(l, s, TRUE)
    \/ \E r \in ServerOverlayReplies : FeedbackFinish(r)

\* verification and feedback requests naming steps of stored lessons
SpecStepReference == InitFeedback /\ [][NextStepReference]_vars

----------------------------------------------------------------------------
(* The verify_step claims *)

CallIds == 1..Len(calls)

PassedGate(i) == calls[i].outcome # "rate_limited"

\* the number of backend invocations made so far
BackendCalls == Cardinality({i \in CallIds : calls[i].invoked})

\* i is the first call made for its lesson and j a later call for the same
\* lesson, made less than RATE_LIMIT_SECONDS after it
FirstThenSoon(i, j) ==
    /\ i < j
    /\ calls[i].lesson_id = calls[j].lesson_id
    /\ \A k \in 1..(i - 1) : calls[k].lesson_id # calls[i].lesson_id
    /\ calls[j].now - calls[i].now < RATE_LIMIT_SECONDS

SecondRejected(j) ==
    /\ calls[j].outcome = "rate_limited"
    /\ ~calls[j].invoked
    /\ response.call = j =>
            /\ response.kind = "response"
            /\ response.status = "in_progress"
            /\ response.confidence = ZeroConfidence
            /\ response.reason = "Checking..."

\* C2 as stated: of two calls for one lesson made less than 2 s apart, with
\* no earlier call for the lesson, the first invokes the backend and the
\* second returns in_progress / 0.0 / "Checking..." without invoking it,
\* whatever step ids they name.
C2_FirstInvokesSecondRejected ==
    \A i, j \in CallIds :
        FirstThenSoon(i, j) => calls[i].invoked /\ SecondRejected(j)

\* C2 amended: the first call passes the gate, and invokes the backend
\* unless the construction of the backend client failed; the second is
\* rejected as stated.
C2_FirstPassesSecondRejected ==
    \A i, j \in CallIds :
        FirstThenSoon(i, j) =>
            /\ PassedGate(i)
            /\ calls[i].invoked <=> calls[i].outcome # "unavailable"
            /\ SecondRejected(j)

\* C2 witness: the first call for a lesson is in flight at the backend and
\* a call for the same lesson naming another step has just been rejected a
\* second later.
C2_Witness ==
    /\ Len(calls) = 2
    /\ FirstThenSoon(1, 2)
    /\ calls[1].pc = "awaiting"
    /\ calls[2].now = calls[1].now + 1
    /\ calls[1].step_id # calls[2].step_id
    /\ response.call = 2
    /\ response.reason = "Checking..."

\* C3: no two calls for one lesson whose gate readings are less than 2 s
\* apart both pass the gate (so they cannot both invoke the backend), under
\* every interleaving of the handlers on the event loop.
C3_NoTwoPassWithinLimit ==
    \A i, j \in CallIds :
        /\ i # j
        /\ calls[i].lesson_id = calls[j].lesson_id
        /\ PassedGate(i)
        /\ PassedGate(j)
        => \/ calls[j].now - calls[i].now >= RATE_LIMIT_SECONDS
           \/ calls[i].now - calls[j].now >= RATE_LIMIT_SECONDS

\* C3 witness: two calls for one lesson read the clock in the same second
\* while the first is still awaiting the backend; the second is rejected.
C3_Witness ==
    \E i, j \in CallIds :
        /\ i < j
        /\ calls[i].lesson_id = calls[j].lesson_id
        /\ calls[i].now = calls[j].now
        /\ calls[i].pc = "awaiting"
        /\ calls[j].outcome = "rate_limited"

JustRejected ==
    /\ Len(calls') = Len(calls) + 1
    /\ calls'[Len(calls')].outcome = "rate_limited"

\* C4: a step in which the gate rejects a call leaves the rate-limit table
\* unchanged and makes no backend call.
C4_RejectionChangesNothing ==
    [][JustRejected =>
        /\ LAST_REQUEST_TIME' = LAST_REQUEST_TIME
        /\ BackendCalls' = BackendCalls
        /\ \A i \in CallIds : calls'[i] = calls[i]]_vars

\* C4 witness: a call was rejected a second after the accepted one, and the
\* table still holds the accepted call's time.
C4_Witness ==
    \E i, j \in CallIds :
        /\ i < j
        /\ calls[i].lesson_id = calls[j].lesson_id
        /\ PassedGate(i)
        /\ calls[j].outcome = "rate_limited"
        /\ calls[j].now > calls[i].now
        /\ LAST_REQUEST_TIME[calls[j].lesson_id] = calls[i].now

\* every rejected call was rejected on account of an accepted call for its
\* own lesson
RejectedByOwnLesson ==
    \A j \in CallIds :
        calls[j].outcome = "rate_limited" =>
            \E i \in 1..(j - 1) :
                /\ calls[i].lesson_id = calls[j].lesson_id
                /\ PassedGate(i)
                /\ calls[j].now - calls[i].now < RATE_LIMIT_SECONDS

\* a step of a call for one lesson leaves every other lesson's entry as it
\* was, and with it the gate's answer for that lesson at every time
OtherLessonsUntouched ==
    \A a \in Lessons :
        /\ Len(calls') = Len(calls) + 1
        /\ calls'[Len(calls')].lesson_id = a
        => \A b \in Lessons \ {a} :
              /\ b \in DOMAIN LAST_REQUEST_TIME' <=> b \in DOMAIN LAST_REQUEST_TIME
              /\ LastTime(LAST_REQUEST_TIME', b) = LastTime(LAST_REQUEST_TIME, b)

\* C5: a call for lesson A never changes the last_request_time of another
\* lesson B nor whether a call for B is accepted, under any interleaving.
C5_NoCrossLessonInterference ==
    /\ []RejectedByOwnLesson
    /\ [][OtherLessonsUntouched]_vars

\* C5 witness: calls for two lessons read the clock in the same second and
\* both pass the gate, the first still in flight.
C5_Witness ==
    \E i, j \in CallIds :
        /\ i < j
        /\ calls[i].lesson_id # calls[j].lesson_id
        /\ calls[i].now = calls[j].now
        /\ calls[i].pc = "awaiting"
        /\ PassedGate(j)
        /\ LAST_REQUEST_TIME[calls[i].lesson_id] = calls[i].now
        /\ LAST_REQUEST_TIME[calls[j].lesson_id] = calls[j].now

\* the answer lets no result be read from it
FailedAnswer(a) ==
    \/ a.kind \in {"raise", "timeout", "null_content", "no_object", "bad_json"}
    \/ /\ a.kind = "object"
       /\ WrongType \in {a.reason.tag, a.confidence.tag, a.suggestion.tag}

WellFormedOutcome(r) ==
    /\ r.kind = "response"
    /\ r.status \in {"in_progress", "complete", "mistake"}
    /\ r.reason \notin {Null, Missing, WrongType, ""}
    /\ r.confidence \in Int

\* C6: every call that passes the gate returns a well-formed outcome and no
\* exception reaches the caller; when the client cannot be constructed, the
\* backend call raises or times out, or the text holds no JSON object,
\* invalid JSON or fields of the wrong type, the status is in_progress.
C6_FailuresDegrade ==
    /\ response.kind # "raised"
    /\ response.call # 0 /\ PassedGate(response.call) =>
            /\ WellFormedOutcome(response)
            /\ \/ calls[response.call].outcome = "unavailable"
               \/ FailedAnswer(answer)
               => response.status = "in_progress"

\* C6 witness: the backend answered with an object whose status is complete
\* and whose confidence is of the wrong type, and the call returned
\* in_progress with reason "Error".
C6_Witness ==
    /\ response.call # 0
    /\ answer.kind = "object"
    /\ answer.status = Field("value", "complete")
    /\ answer.confidence.tag = WrongType
    /\ response.status = "in_progress"
    /\ response.reason = "Error"

\* the status the backend's JSON object carries is none of the three
UnknownStatus(a) ==
    /\ a.kind = "object"
    /\ \/ a.status.tag # "value"
       \/ a.status.val \notin {"in_progress", "complete", "mistake"}

\* C15: when the backend's JSON answer carries a status outside
\* {in_progress, complete, mistake}, or none, the call returns in_progress.
C15_UnknownStatusCoerced ==
    response.call # 0 /\ UnknownStatus(answer) =>
        /\ response.kind = "response"
        /\ response.status = "in_progress"

\* C15 witness: the backend answered status "done" with a reason and a
\* confidence, and the call returned in_progress with that reason.
C15_Witness ==
    /\ response.call # 0
    /\ answer.kind = "object"
    /\ answer.status = Field("value", "done")
    /\ answer.confidence = Field("number", 9)
    /\ response.status = "in_progress"
    /\ response.reason = "Wrong tool"
    /\ response.confidence = 9

\* C16: the confidence of every outcome returned lies in [0, 1] (0..10
\* tenths): a backend confidence above 1 comes back as 1.0, one below 0 as
\* 0.0.
C16_ConfidenceInUnitInterval ==
    response.kind = "response" =>
        /\ response.confidence >= 0
        /\ response.confidence <= 10
        /\ answer.confidence.tag = "number" /\ ResponseBuilds(answer) =>
                response.confidence =
                    IF answer.confidence.val > 10 THEN 10
                    ELSE IF answer.confidence.val < 0 THEN 0
                    ELSE answer.confidence.val

\* C17: in every outcome returned (accepted, rate-limited or degraded) the
\* suggestion is non-null only if the status is mistake.
C17_SuggestionOnlyOnMistake ==
    response.kind = "response" /\ response.suggestion # Null =>
        response.status = "mistake"

----------------------------------------------------------------------------
(* The lesson creation claims *)

CreationIds == 1..Len(creations)

\* the ways extraction fails totally: no credential for the backend client,
\* no frame from the sampler, the backend call raising or timing out
TotalFailures ==
    {"ValueError", "Exception", "APIConnectionError", "APITimeoutError"}

FailedTotally(c) == c.pc = "done" /\ c.failure \in TotalFailures

CreationSucceedsWithoutProcedure ==
    \A i \in CreationIds :
        FailedTotally(creations[i]) =>
            /\ creations[i].status = 200
            /\ ~creations[i].has_config
            /\ creations[i].lesson_id \in DOMAIN lessons =>
                    ~lessons[creations[i].lesson_id].has_config

\* the record of a request that fails before its backend call is stored in
\* the same step, and no step but a delete request removes a record
RecordRemains ==
    /\ \A i \in 1..Len(creations') :
            i > Len(creations) /\ FailedTotally(creations'[i]) =>
                creations'[i].lesson_id \in DOMAIN lessons'
    /\ \A id \in DOMAIN lessons :
            id \notin DOMAIN lessons' => DeleteLesson(id)

\* C11: when extraction fails totally (no credential for the backend
\* client, no frames, the backend call raising or timing out) the create
\* request still answers 200, and the lesson record stays in the repository
\* with an absent Procedure (until a delete request removes it).
C11_TotalFailureKeepsLesson ==
    /\ []CreationSucceedsWithoutProcedure
    /\ [][RecordRemains]_vars

\* C11 witness: one request failed for the missing credential, another for
\* a backend timeout, and both records are stored without a Procedure.
C11_Witness ==
    /\ Len(creations) = 2
    /\ creations[1].failure = "ValueError"
    /\ creations[2].failure = "APITimeoutError"
    /\ \A i \in 1..2 :
          /\ creations[i].status = 200
          /\ creations[i].lesson_id \in DOMAIN lessons
          /\ ~lessons[creations[i].lesson_id].has_config

\* a create request takes its first step
JustStarted(i) == i > Len(creations) /\ creations'[i].lesson_id # Null

\* a create request's extraction ends and returns a Procedure
JustExtracted(i) ==
    /\ i <= Len(creations)
    /\ creations[i].pc = "awaiting"
    /\ creations'[i].pc = "done"
    /\ creations'[i].failure = Null

ProcedureLifecycle ==
    /\ \A i \in 1..Len(creations') :
            JustStarted(i) =>
                /\ creations'[i].lesson_id \in DOMAIN lessons'
                /\ ~lessons'[creations'[i].lesson_id].has_config
    /\ \A id \in (DOMAIN lessons) \cap (DOMAIN lessons') :
            /\ lessons[id].has_config => lessons'[id].has_config
            /\ ~lessons[id].has_config /\ lessons'[id].has_config =>
                    \E i \in CreationIds :
                        creations[i].lesson_id = id /\ JustExtracted(i)
    /\ \A i \in CreationIds :
            /\ creations[i].pc = "awaiting"
            /\ creations'[i].pc = "done"
            /\ creations'[i].failure # Null
            /\ creations[i].lesson_id \in DOMAIN lessons'
            => ~lessons'[creations[i].lesson_id].has_config

\* C12: the record is stored with an absent Procedure in the step that
\* starts the request, before the backend is called; a Procedure becomes
\* attached only by the step in which the request's extraction returns one,
\* it stays absent when the extraction fails, and an attached Procedure is
\* never made absent again while the record exists.
C12_ProcedureAttachedOnce == [][ProcedureLifecycle]_vars

\* C12 witness: one lesson's extraction is still awaited and its record has
\* no Procedure, while another lesson's Procedure was attached and later
\* rewritten with clip urls by regenerate_clips.
C12_Witness ==
    /\ Len(creations) = 2
    /\ creations[1].pc = "done"
    /\ creations[1].failure = Null
    /\ creations[2].pc = "awaiting"
    /\ creations[1].lesson_id \in DOMAIN lessons
    /\ lessons[creations[1].lesson_id].has_config
    /\ lessons[creations[1].lesson_id].clips
    /\ creations[2].lesson_id \in DOMAIN lessons
    /\ ~lessons[creations[2].lesson_id].has_config

\* C13: the create request has returned its response whenever its
\* extraction is in flight, and the response carries no Procedure: the
\* extraction's result is seen only by a later re-fetch.
C13_CreateReturnsBeforeExtraction ==
    \A i \in CreationIds :
        /\ creations[i].pc = "awaiting" => creations[i].status = 200
        /\ ~creations[i].has_config

----------------------------------------------------------------------------
(* The concurrency claim *)

Awaiting ==
    \/ \E i \in CallIds : calls[i].pc = "awaiting"
    \/ \E i \in CreationIds : creations[i].pc = "awaiting"
    \/ feedback.pc = "awaiting"

----------------------------------------------------------------------------
(* The extraction parser claims *)

\* C1: for every model text each extraction parser returns a Procedure that
\* is fully parsed, repaired with at least one step, or the exact one-step
\* fallback, and never raises.
C1_ParserAlwaysReturnsProcedure ==
    parsed.kind # "none" =>
        /\ parsed.kind = "config"
        /\ \/ parsed.via = "direct"
           \/ parsed.via = "repair" /\ Len(parsed.steps) >= 1
           \/ parsed = FallbackConfig

\* the step dicts _parse_teacher_config iterates over for the text
SourceItems == LoadOrRepair(StripFenceAnywhere(raw)).data.items

Reconciled ==
    /\ parsed.parser = "gemini"
    /\ parsed.kind = "config"
    /\ parsed.via \in {"direct", "repair"}
    /\ video_duration > 0

AllWindowsInvalid(items) ==
    \A n \in 1..Len(items) :
        NumberOr(items[n].end_time, 0) <= NumberOr(items[n].start_time, 0)

\* C8: with N >= 1 steps whose windows are all invalid and a duration
\* D > 0, step i (0-based) gets [i*D/N, (i+1)*D/N]: equal lengths,
\* ascending, each window ending where the next starts, from 0 to D.
C8_EvenSplit ==
    Reconciled /\ AllWindowsInvalid(SourceItems) =>
        LET N == Len(parsed.steps)
            D == video_duration
        IN  /\ N >= 1
            /\ \A n \in 1..N :
                  /\ N * parsed.steps[n].start_time = (n - 1) * D
                  /\ N * parsed.steps[n].end_time = n * D
            /\ parsed.steps[1].start_time = 0
            /\ parsed.steps[N].end_time = D
            /\ \A n \in 1..(N - 1) :
                  parsed.steps[n].end_time = parsed.steps[n + 1].start_time

\* C8 witness: 20 s and two steps without timestamps give [0,10], [10,20].
C8_Witness ==
    /\ Reconciled
    /\ video_duration = Seconds(20)
    /\ Len(SourceItems) = 2
    /\ \A n \in 1..2 : SourceItems[n].start_time.tag = Missing
                        /\ SourceItems[n].end_time.tag = Missing
    /\ Len(parsed.steps) = 2
    /\ parsed.steps[1].start_time = Seconds(0)
    /\ parsed.steps[1].end_time = Seconds(10)
    /\ parsed.steps[2].start_time = Seconds(10)
    /\ parsed.steps[2].end_time = Seconds(20)

\* C9: after reconciliation with a known duration D > 0 every step has
\* 0 <= start_time < end_time <= D, and end_time >= start_time + 0.5.
C9_WindowsInsideVideo ==
    Reconciled =>
        \A n \in 1..Len(parsed.steps) :
            LET st == parsed.steps[n] IN
            /\ 0 <= st.start_time
            /\ st.start_time < st.end_time
            /\ st.end_time <= video_duration
            /\ 2 * (st.end_time - st.start_time) >= TicksPerSecond

\* C10: after reconciliation start_time is non-decreasing along the list
\* and each step ends no later than the next one starts, also when only
\* some steps were given even-partition windows.
C10_WindowsOrdered ==
    Reconciled =>
        \A n \in 1..(Len(parsed.steps) - 1) :
            /\ parsed.steps[n].start_time <= parsed.steps[n + 1].start_time
            /\ parsed.steps[n].end_time <= parsed.steps[n + 1].start_time

\* json.loads rejects the text the gemini parser hands it
DirectFails == ~JsonLoads(StripFenceAnywhere(raw))

\* a complete object of the text that carries a step-identifier field
CarriesStepId(item) == item.kind = "object" /\ item.step_id.tag # Missing

\* the complete step objects of the text, in their order of appearance
CompleteStepObjects ==
    SelectSeq(StripFenceAnywhere(raw).body.items, CarriesStepId)

\* C18: when direct parsing fails, repair returns exactly the complete
\* objects that carry a step-identifier field, in their order, and the cut
\* off one is dropped: the Procedure returned has one step for each.
C18_RepairKeepsCompleteStepObjects ==
    parsed.parser = "gemini" /\ DirectFails =>
        /\ RepairedSteps(StripFenceAnywhere(raw)) = CompleteStepObjects
        /\ parsed.kind = "config" /\ CompleteStepObjects # <<>> =>
                /\ parsed.via = "repair"
                /\ Len(parsed.steps) = Len(CompleteStepObjects)

\* C19: when direct parsing fails and repair finds no step object, the
\* parser returns the Procedure with exactly one step (step_id 1, the
\* sentinel title) and total_steps = 1; it does not raise and does not
\* return a Procedure without steps.
C19_NoStepsFallback ==
    /\ parsed.parser = "gemini"
    /\ DirectFails
    /\ RepairedSteps(StripFenceAnywhere(raw)) = <<>>
    \/ /\ parsed.parser = "ai_service"
       /\ ~JsonLoads(StripLeadingFence(raw))
       /\ CompleteStepObjects = <<>>
    => /\ parsed.kind = "config"
       /\ parsed.total_steps = 1
       /\ Len(parsed.steps) = 1
       /\ parsed.steps[1].step_id = 1
       /\ parsed.steps[1].title = "Procedure"

\* the gemini parser returned the steps of the text, reconciled
ReturnedSteps ==
    /\ parsed.parser = "gemini"
    /\ parsed.kind = "config"
    /\ parsed.via \in {"direct", "repair"}

\* a returned step as a step dict, to reconcile it again
AsItem(st) ==
    [kind |-> "object", step_id |-> Num(st.step_id),
     title |-> Field("value", st.title), start_time |-> Num(st.start_time),
     end_time |-> Num(st.end_time), id_first |-> TRUE]

ValidWindow(start_time, end_time) == end_time > start_time

\* C21: reconciliation leaves the windows of a list whose windows are all
\* valid as they are, and reconciling the reconciled list again changes no
\* window.
C21_ReconciliationIdempotent ==
    ReturnedSteps =>
        LET N == Len(parsed.steps) IN
        /\ (\A n \in 1..N :
                ValidWindow(NumberOr(SourceItems[n].start_time, 0),
                            NumberOr(SourceItems[n].end_time, 0)))
            => \A n \in 1..N :
                  /\ parsed.steps[n].start_time = SourceItems[n].start_time.val
                  /\ parsed.steps[n].end_time = SourceItems[n].end_time.val
        /\ \A n \in 1..N :
              ReconciledWindow(AsItem(parsed.steps[n]), n - 1, N, video_duration)
                = <<parsed.steps[n].start_time, parsed.steps[n].end_time>>

\* C21 witness: in a 20 s video a step with the valid window [0, 15] kept
\* it and a step with an inverted window was given [10, 20].
C21_Witness ==
    /\ ReturnedSteps
    /\ video_duration = Seconds(20)
    /\ Len(parsed.steps) = 2
    /\ SourceItems[1].end_time = Num(Seconds(15))
    /\ SourceItems[2].start_time = Num(Seconds(8))
    /\ parsed.steps[1].start_time = 0
    /\ parsed.steps[1].end_time = Seconds(15)
    /\ parsed.steps[2].start_time = Seconds(10)
    /\ parsed.steps[2].end_time = Seconds(20)

\* C22: in every Procedure a parser returns the step_ids are positive,
\* pairwise distinct and strictly ascending in list order.
C22_StepIdsAscending ==
    parsed.kind = "config" =>
        /\ \A n \in 1..Len(parsed.steps) : parsed.steps[n].step_id >= 1
        /\ \A n \in 1..(Len(parsed.steps) - 1) :
              parsed.steps[n].step_id < parsed.steps[n + 1].step_id

----------------------------------------------------------------------------
(* The feedback claims *)

\* C7: when the request names an existing lesson with a Procedure and an
\* existing step, and obtaining the backend, the backend call or building
\* the OverlayInstruction raises, the response carries an overlay of type
\* "diagram" with non-empty audio_text, exactly one label element naming
\* the step's title and a duration of 5 seconds.
C7_FallbackOverlay ==
    feedback.pc = "done" /\ feedback.raised # Null =>
        LET o == feedback.result.overlay IN
        /\ feedback.result.kind = "ok"
        /\ o # NoOverlay
        /\ o.overlay_type = "diagram"
        /\ o.audio_text \notin {"", Null}
        /\ Len(o.elements) = 1
        /\ o.elements[1].type = "label"
        /\ o.elements[1].text = "Review: " \o feedback.title
        /\ o.duration_seconds = 5

\* C7 witness: the backend answered with an element the overlay model
\* rejects, and the request for step 2 returned the fallback naming it.
C7_Witness ==
    /\ feedback.pc = "done"
    /\ feedback.raised = "ValidationError"
    /\ feedback.step_id = 2
    /\ feedback.title = "Strip wire"
    /\ feedback.result.overlay.elements = <<Element("label", "Review: Strip wire")>>

\* C20: when the overlay text cannot be parsed, the overlay parser returns a
\* default overlay with non-empty audio_text and exactly one label element
\* carrying a generic review message, never one with zero elements.
C20_DefaultOverlayHasOneLabel ==
    overlay_data.parser # "none" /\ overlay_data.reply.kind = "unparseable" =>
        LET d == overlay_data.data IN
        /\ d.kind = "object"
        /\ d.audio_text.tag = "value"
        /\ d.audio_text.val # ""
        /\ d.elements.tag = "list"
        /\ Len(ElementListAt(d.elements.val)) = 1
        /\ ElementListAt(d.elements.val)[1].type = "label"
        /\ ElementListAt(d.elements.val)[1].text \notin {"", Null}

\* C23: when speech synthesis fails for some step, the extraction still
\* returns the Procedure with all its steps: a create request served by the
\* OpenAI provider whose backend answered with steps and whose speech
\* synthesis failed ends without a failure and with the Procedure attached.
C23_AudioFailureTolerated ==
    \A i \in CreationIds :
        /\ creations[i].pc = "done"
        /\ creations[i].provider = "openai"
        /\ creations[i].tts = "fails"
        => /\ creations[i].failure = Null
           /\ creations[i].has_config

\* the lesson is stored with a Procedure and step_id is not one of its steps
UnknownStep(lesson_id, step_id) ==
    /\ lesson_id \in DOMAIN lessons
    /\ lessons[lesson_id].has_config
    /\ FindStep(lessons[lesson_id].steps, step_id) = <<>>

\* C24: a verification request or a feedback request that names a step id
\* not in the lesson's Procedure is answered with a client error: the
\* verification call returns no verification outcome and never reaches the
\* backend, and the feedback request returns an HTTP 4xx and no overlay.
C24_UnknownStepIsClientError ==
    /\ \A i \in CallIds :
            UnknownStep(calls[i].lesson_id, calls[i].step_id) =>
                /\ ~calls[i].invoked
                /\ response.call = i => response.kind # "response"
    /\ feedback.pc # "idle" /\ UnknownStep(feedback.lesson_id, feedback.step_id) =>
            /\ feedback.pc = "done"
            /\ feedback.result.kind = "http_error"
            /\ feedback.result.code = 400
            /\ feedback.result.overlay = NoOverlay

\* the stored record of lesson_id has no Procedure or a Procedure of no steps
NothingToClip(lesson_id) ==
    /\ lesson_id \in DOMAIN lessons
    /\ ~lessons[lesson_id].has_config \/ lessons[lesson_id].steps = <<>>

\* C25: regenerating clips for a lesson changes only the clip_url of its
\* steps: the stored steps (their number, order, ids, titles and windows) and
\* every other lesson are the same before and after, and a lesson with no
\* Procedure or no steps is rejected with 400 and the repository unchanged.
C25_RegenerateChangesOnlyClips ==
    [][\A n \in 1..MaxCreates, clip_ok \in BOOLEAN :
        LET id == NewLessonId(n) IN
        RegenerateClips(id, clip_ok) =>
            /\ DOMAIN lessons' = DOMAIN lessons
            /\ \A k \in DOMAIN lessons :
                    /\ lessons'[k].has_config = lessons[k].has_config
                    /\ lessons'[k].steps = lessons[k].steps
                    /\ k # id => lessons'[k] = lessons[k]
            /\ NothingToClip(id) =>
                    /\ lessons' = lessons
                    /\ regeneration'.status = 400]_vars

\* C25 witness: a regeneration was answered with 200 and the lesson holds
\* its clips and its two steps with the windows the extraction stored.
C25_Witness ==
    /\ regeneration.status = 200
    /\ regeneration.lesson_id \in DOMAIN lessons
    /\ lessons[regeneration.lesson_id].clips
    /\ Len(lessons[regeneration.lesson_id].steps) = 2
    /\ ClipWanted(lessons[regeneration.lesson_id].steps[2])

\* C26: a call that passes the gate has recorded its time in the rate-limit
\* table before the backend is contacted: while it is in flight, and after
\* the backend client could not be built or the backend failed, the table
\* holds a time no earlier than the call's, and every later call for the
\* lesson made less than 2 s after it is rejected.
C26_RecordedBeforeBackend ==
    \A i \in CallIds :
        PassedGate(i) =>
            /\ calls[i].lesson_id \in DOMAIN LAST_REQUEST_TIME
            /\ LAST_REQUEST_TIME[calls[i].lesson_id] >= calls[i].now
            /\ \A j \in CallIds :
                    /\ i < j
                    /\ calls[j].lesson_id = calls[i].lesson_id
                    /\ calls[j].now - calls[i].now < RATE_LIMIT_SECONDS
                    => SecondRejected(j)

\* C26 witness: the backend call of the first call has just failed, and the
\* call for the same lesson made a second after it, while it was in flight,
\* was rejected.
C26_Witness ==
    /\ Len(calls) = 2
    /\ calls[1].invoked
    /\ response.call = 1
    /\ response.reason = "Error"
    /\ calls[2].lesson_id = calls[1].lesson_id
    /\ calls[2].now = calls[1].now + 1
    /\ calls[2].outcome = "rate_limited"

\* the earlier calls for the lesson of call j that the backend was invoked for
EarlierInvoked(j) ==
    {i \in 1..(j - 1) : calls[i].lesson_id = calls[j].lesson_id /\ calls[i].invoked}

\* the earlier calls for the lesson of call j that passed the gate
EarlierPassed(j) ==
    {i \in 1..(j - 1) : calls[i].lesson_id = calls[j].lesson_id /\ PassedGate(i)}

\* C28 as stated: a call reaches the backend exactly when no earlier call for
\* its lesson reached the backend or the last one that did is at least 2 s
\* old.
C28_InvokedIffWindowElapsed ==
    \A j \in CallIds :
        calls[j].invoked <=>
            \A i \in EarlierInvoked(j) :
                calls[j].now - calls[i].now >= RATE_LIMIT_SECONDS

\* C28 amended: a call passes the gate exactly when no earlier call for its
\* lesson passed it or the last one that did is at least 2 s old, and a call
\* that passes reaches the backend unless the backend client cannot be built.
C28_PassesIffWindowElapsed ==
    \A j \in CallIds :
        /\ PassedGate(j) <=>
                \A i \in EarlierPassed(j) :
                    calls[j].now - calls[i].now >= RATE_LIMIT_SECONDS
        /\ calls[j].invoked <=> PassedGate(j) /\ calls[j].outcome # "unavailable"

\* C28 witness: three calls for one lesson a second apart; the first is
\* accepted, the second rejected, and the third, 2 s after the first, is
\* accepted again.
C28_Witness ==
    /\ Len(calls) = 3
    /\ calls[2].lesson_id = calls[1].lesson_id
    /\ calls[3].lesson_id = calls[1].lesson_id
    /\ calls[2].now = calls[1].now + 1
    /\ calls[3].now = calls[1].now + RATE_LIMIT_SECONDS
    /\ calls[1].invoked
    /\ calls[2].outcome = "rate_limited"
    /\ calls[3].invoked

\* C27: every Procedure that lesson creation attaches has passed through
\* timestamp reconciliation: each of its stored steps has a window with
\* end_time > start_time >= 0, the test a step passes to have its clip cut,
\* also when the model returned the step without timestamps.
C27_AttachedProcedureReconciled ==
    \A id \in DOMAIN lessons :
        lessons[id].has_config =>
            \A n \in 1..Len(lessons[id].steps) : ClipWanted(lessons[id].steps[n])

\* a create request's awaited extraction ends
JustFinished(i) ==
    /\ i <= Len(creations)
    /\ creations[i].pc = "awaiting"
    /\ creations'[i].pc = "done"

\* C29: when a lesson was deleted while its extraction was in flight, the
\* step that completes the create request does not store the record again:
\* the lesson is absent from the repository after it as before it.
C29_DeletedLessonNotRecreated ==
    [][\A i \in CreationIds :
        JustFinished(i) /\ creations[i].lesson_id \notin DOMAIN lessons =>
            creations[i].lesson_id \notin DOMAIN lessons']_vars

\* C29 witness: a create request completed with a Procedure from the
\* extraction, and its lesson, deleted meanwhile, is not in the repository.
C29_Witness ==
    \E i \in CreationIds :
        /\ creations[i].pc = "done"
        /\ creations[i].failure = Null
        /\ creations[i].has_config
        /\ creations[i].lesson_id # Null
        /\ creations[i].lesson_id \notin DOMAIN lessons

\* the ids create requests give their lessons
CreatedIds == {NewLessonId(n) : n \in 1..MaxCreates}

\* the ids whose record, or whose presence, differs between the two states
Rewritten ==
    {id \in CreatedIds :
        \/ (id \in DOMAIN lessons) # (id \in DOMAIN lessons')
        \/ id \in DOMAIN lessons /\ id \in DOMAIN lessons' /\ lessons'[id] # lessons[id]}

WritesKept ==
    /\ Cardinality(Rewritten) <= 1
    /\ DOMAIN lessons' \subseteq CreatedIds
    /\ \A id \in CreatedIds :
            /\ id \in DOMAIN lessons /\ id \notin DOMAIN lessons' => DeleteLesson(id)
            /\ id \notin DOMAIN lessons /\ id \in DOMAIN lessons' =>
                    \E i \in 1..Len(creations') :
                        JustStarted(i) /\ creations'[i].lesson_id = id
            /\ id \in Rewritten /\ id \in DOMAIN lessons /\ id \in DOMAIN lessons' =>
                    \/ \E i \in CreationIds :
                            creations[i].lesson_id = id /\ JustExtracted(i)
                    \/ \E clip_ok \in BOOLEAN : RegenerateClips(id, clip_ok)

\* C30: no request loses another request's write to the repository: a step
\* changes the record of at most one lesson, the one its request names; a
\* record disappears only by a delete request for it, appears only by the
\* create request that made it, and changes only by that request's
\* extraction result or a regeneration of its clips.
C30_NoLostWrites == [][WritesKept]_vars

\* C30 witness: the first lesson's extraction is still awaited with its
\* record stored, while the second lesson, created after it, has its
\* Procedure attached and its clips regenerated.
C30_Witness ==
    /\ Len(creations) = 2
    /\ creations[1].pc = "awaiting"
    /\ creations[1].lesson_id \in DOMAIN lessons
    /\ creations[2].pc = "done"
    /\ creations[2].lesson_id \in DOMAIN lessons
    /\ lessons[creations[2].lesson_id].has_config
    /\ regeneration = Regeneration(creations[2].lesson_id, 200)

=============================================================================
